---- MODULE Spec2Model ----
(***************************************************************************)
(* Model of the Conan recipe TranswarpConan (conanfile.py): the "source"   *)
(* hook (download, unzip, unlink) and the "package" hook (copy "*.h").     *)
(* Strings are sequences of one-character strings, so that the "%"         *)
(* formatting of the recipe and the glob matching of self.copy are         *)
(* computed, not assumed.  The working directory and the package folder    *)
(* are sets of paths; a path ending in "/" is a directory entry.           *)
(***************************************************************************)
EXTENDS Integers, Sequences, FiniteSets, TLC

VARIABLES
    remote,          \* members of the zip the host serves, in archive order
    cwd,             \* paths present in the working directory
    pkg,             \* paths present in the package folder
    pc,              \* position inside source(): "idle", "download", "unzip", "unlink"
    zip_name,        \* local variable of source()
    include_folder,  \* local variable of package(), as last computed
    calls,           \* calls made by the current or last source() invocation
    copied,          \* relative names staged by the last package() invocation
    outcome,         \* how the last finished hook ended: "none", "ok", "raised"
    hist,            \* the last HistLen finished hooks
    snaps            \* working directory and package folder after the last two whole fetches

vars == <<remote, cwd, pkg, pc, zip_name, include_folder, calls, copied, outcome, hist, snaps>>

\* How many finished hooks the history remembers.
HistLen == 4

----------------------------------------------------------------------------
(* Class attributes of the recipe.                                         *)

name == <<"t","r","a","n","s","w","a","r","p">>

version == <<"1",".","2",".","1">>

url == <<"h","t","t","p","s",":","/","/","g","i","t","h","u","b",".","c","o","m","/","b","l","o","o","m","e","n","/","t","r","a","n","s","w","a","r","p">>

----------------------------------------------------------------------------
(* String helpers.                                                         *)

Drop(s, n) == SubSeq(s, n + 1, Len(s))

StartsWith(s, p) == Len(s) >= Len(p) /\ SubSeq(s, 1, Len(p)) = p

IsDirEntry(p) == Len(p) > 0 /\ p[Len(p)] = "/"

\* The part of a path after its last "/".
RECURSIVE Basename(_)
Basename(p) == IF \E i \in 1..Len(p) : p[i] = "/" THEN Basename(Tail(p)) ELSE p

\* Variant of Format: the arguments are taken in reverse order.
RECURSIVE FormatReversed(_, _)
FormatReversed(fmt, args) ==
    IF fmt = <<>> THEN <<>>
    ELSE IF Len(fmt) >= 2 /\ fmt[1] = "%" /\ fmt[2] = "s"
         THEN args[Len(args)] \o FormatReversed(Drop(fmt, 2), SubSeq(args, 1, Len(args) - 1))
         ELSE <<fmt[1]>> \o FormatReversed(Tail(fmt), args)

\* Variant of Format: every conversion takes the first argument.
RECURSIVE FormatRepeatsFirst(_, _)
FormatRepeatsFirst(fmt, args) ==
    IF fmt = <<>> THEN <<>>
    ELSE IF Len(fmt) >= 2 /\ fmt[1] = "%" /\ fmt[2] = "s"
         THEN Head(args) \o FormatRepeatsFirst(Drop(fmt, 2), args)
         ELSE <<fmt[1]>> \o FormatRepeatsFirst(Tail(fmt), args)

\* Python's  fmt % args  for the "%s" conversions the recipe uses.
RECURSIVE Format(_, _)
Format(fmt, args) ==
    IF fmt = <<>> THEN <<>>
    ELSE IF Len(fmt) >= 2 /\ fmt[1] = "%" /\ fmt[2] = "s"
         THEN Head(args) \o Format(Drop(fmt, 2), Tail(args))
         ELSE <<fmt[1]>> \o Format(Tail(fmt), args)

\* Variant of fnmatch: the pattern need only match a prefix of the name.
RECURSIVE fnmatchUnanchored(_, _)
fnmatchUnanchored(n, pat) ==
    IF pat = <<>> THEN TRUE
    ELSE IF pat[1] = "*"
         THEN fnmatchUnanchored(n, Tail(pat)) \/ (n # <<>> /\ fnmatchUnanchored(Tail(n), pat))
         ELSE IF pat[1] = "?"
              THEN n # <<>> /\ fnmatchUnanchored(Tail(n), Tail(pat))
              ELSE n # <<>> /\ n[1] = pat[1] /\ fnmatchUnanchored(Tail(n), Tail(pat))

\* fnmatch: "*" matches any run of characters ("/" included), "?" one character.
RECURSIVE fnmatch(_, _)
fnmatch(n, pat) ==
    IF pat = <<>> THEN n = <<>>
    ELSE IF pat[1] = "*"
         THEN fnmatch(n, Tail(pat)) \/ (n # <<>> /\ fnmatch(Tail(n), pat))
         ELSE IF pat[1] = "?"
              THEN n # <<>> /\ fnmatch(Tail(n), Tail(pat))
              ELSE n # <<>> /\ n[1] = pat[1] /\ fnmatch(Tail(n), Tail(pat))

----------------------------------------------------------------------------
(* The archives the host may serve for the tag.                            *)

FileList == << <<"a",".","h">>, <<"b",".","h">>, <<"c",".","t","x","t">>, <<"a",".","h","p","p">> >>

FileNames == {FileList[i] : i \in 1..Len(FileList)}

Layouts == { <<"s","r","c">>, <<"i","n","c","l","u","d","e">>, <<>> }

\* Top-level folder of the archive of a tag: repository name, "-", tag.
TopFolder == Basename(url) \o <<"-">> \o version

Fixture(layout, files) ==
    LET top == TopFolder \o <<"/">>
        dir == IF layout = <<>> THEN top ELSE top \o layout \o <<"/">>
        members == SelectSeq(FileList, LAMBDA f : f \in files)
    IN  (IF layout = <<>> THEN <<top>> ELSE <<top, dir>>)
        \o [i \in 1..Len(members) |-> dir \o members[i]]

Fixtures == {Fixture(l, fs) : l \in Layouts, fs \in SUBSET FileNames}

----------------------------------------------------------------------------
(* The library calls the hooks make.                                       *)

\* download(url, filename): the file named filename holds the archive.
Download(tree, filename) == tree \cup {filename}

\* Variant of Unzip: the last member reached is not written.
UnzipSkipsLast(tree, archive, k) == tree \cup {archive[i] : i \in 1..(k - 1)}

\* unzip(filename): the first k members of the archive are written out.
Unzip(tree, archive, k) == tree \cup {archive[i] : i \in 1..k}

\* Variant of Unlink: the file stays.
UnlinkKeeps(tree, path) == tree

\* os.unlink(path)
Unlink(tree, path) == tree \ {path}

\* Variant of FilesUnder: src is ignored and every file of the tree is listed.
FilesAnywhere(tree, src) == {Basename(p) : p \in {q \in tree : ~IsDirEntry(q)}}

\* Relative names of the files (not directories) below folder src.
FilesUnder(tree, src) ==
    LET prefix == src \o <<"/">>
    IN  {Drop(p, Len(prefix)) : p \in {q \in tree : StartsWith(q, prefix) /\ ~IsDirEntry(q)
                                                    /\ Len(q) > Len(prefix)}}

\* Variant of Copy: the pattern is ignored.
CopyAll(tree, pattern, src) == FilesUnder(tree, src)

\* self.copy(pattern, dst=dst, src=src): the relative names it copies.
Copy(tree, pattern, src) == {rel \in FilesUnder(tree, src) : fnmatch(rel, pattern)}

\* Variant of Stage: a file already there is kept and the copy lands beside it.
StageKeepingOld(dest, dst, rels) ==
    dest \cup {IF (dst \o <<"/">> \o rel) \in dest
               THEN dst \o <<"/">> \o rel \o <<"~">>
               ELSE dst \o <<"/">> \o rel : rel \in rels}

\* self.copy(..., dst=dst): each copied file lands at dst/rel, replacing a file
\* of that path if there is one.
Stage(dest, dst, rels) == dest \cup {dst \o <<"/">> \o rel : rel \in rels}

Push(h, x) == IF Len(h) < HistLen THEN Append(h, x) ELSE Append(Tail(h), x)

Last(h) == h[Len(h)]

----------------------------------------------------------------------------

Init ==
    /\ remote \in Fixtures
    /\ cwd = {}
    /\ pkg = {}
    /\ pc = "idle"
    /\ zip_name = <<>>
    /\ include_folder = <<>>
    /\ calls = <<>>
    /\ copied = {}
    /\ outcome = "none"
    /\ hist = <<>>
    /\ snaps = <<>>

\* source(), line 15
SourceBegin ==
    /\ pc = "idle"
    /\ zip_name' = Format(<<"%","s",".","z","i","p">>, <<version>>)
    /\ calls' = <<>>
    /\ pc' = "download"
    /\ UNCHANGED <<remote, cwd, pkg, include_folder, copied, outcome, hist, snaps>>

\* source(), line 16: the download completes, or raises
DownloadStep ==
    /\ pc = "download"
    /\ LET from == Format(<<"%","s","/","a","r","c","h","i","v","e","/","%","s">>, <<url, zip_name>>)
       IN \E ok \in BOOLEAN :
            /\ calls' = Append(calls, [op |-> "download", args |-> <<from, zip_name>>, ok |-> ok])
            /\ IF ok
               THEN /\ cwd' = Download(cwd, zip_name)
                    /\ pc' = "unzip"
                    /\ UNCHANGED <<zip_name, outcome, hist>>
               ELSE /\ cwd' = cwd
                    /\ pc' = "idle"
                    /\ zip_name' = <<>>
                    /\ outcome' = "raised"
                    /\ hist' = Push(hist, "source_failed")
    /\ UNCHANGED <<remote, pkg, include_folder, copied, snaps>>

\* Variant of UnzipStep: when unzip raises, the step goes on to the unlink.
UnzipStepThenCleanup ==
    /\ pc = "unzip"
    /\ \E k \in 0..Len(remote) :
         LET ok == (k = Len(remote)) /\ zip_name \in cwd
         IN /\ calls' = Append(calls, [op |-> "unzip", args |-> <<zip_name>>, ok |-> ok])
            /\ cwd' = IF zip_name \in cwd THEN Unzip(cwd, remote, k) ELSE cwd
            /\ pc' = "unlink"
    /\ UNCHANGED <<remote, pkg, zip_name, include_folder, copied, outcome, hist, snaps>>

\* source(), line 17: the archive is extracted whole, or unzip raises part-way
UnzipStep ==
    /\ pc = "unzip"
    /\ \E k \in 0..Len(remote) :
         LET ok == (k = Len(remote)) /\ zip_name \in cwd
         IN /\ calls' = Append(calls, [op |-> "unzip", args |-> <<zip_name>>, ok |-> ok])
            /\ cwd' = IF zip_name \in cwd THEN Unzip(cwd, remote, k) ELSE cwd
            /\ IF ok
               THEN /\ pc' = "unlink"
                    /\ UNCHANGED <<zip_name, outcome, hist>>
               ELSE /\ pc' = "idle"
                    /\ zip_name' = <<>>
                    /\ outcome' = "raised"
                    /\ hist' = Push(hist, "source_failed")
    /\ UNCHANGED <<remote, pkg, include_folder, copied, snaps>>

\* source(), line 18
UnlinkStep ==
    /\ pc = "unlink"
    /\ LET ok == zip_name \in cwd
       IN /\ calls' = Append(calls, [op |-> "unlink", args |-> <<zip_name>>, ok |-> ok])
          /\ cwd' = Unlink(cwd, zip_name)
          /\ outcome' = IF ok THEN "ok" ELSE "raised"
          /\ hist' = Push(hist, IF ok THEN "source_ok" ELSE "source_failed")
    /\ pc' = "idle"
    /\ zip_name' = <<>>
    /\ UNCHANGED <<remote, pkg, include_folder, copied, snaps>>

\* Variant of Package: the files are moved out of the working directory.
PackageMoving ==
    /\ pc = "idle"
    /\ LET folder == Format(<<"%","s","-","%","s","/","s","r","c">>, <<name, version>>)
           rels == Copy(cwd, <<"*",".","h">>, folder)
       IN /\ include_folder' = folder
          /\ copied' = rels
          /\ pkg' = Stage(pkg, <<"i","n","c","l","u","d","e">>, rels)
          /\ cwd' = cwd \ {folder \o <<"/">> \o rel : rel \in rels}
    /\ outcome' = "ok"
    /\ hist' = Push(hist, "package")
    /\ UNCHANGED <<remote, pc, zip_name, calls, snaps>>

\* package(), lines 21-22
Package ==
    /\ pc = "idle"
    /\ LET folder == Format(<<"%","s","-","%","s","/","s","r","c">>, <<name, version>>)
           rels == Copy(cwd, <<"*",".","h">>, folder)
           after == Stage(pkg, <<"i","n","c","l","u","d","e">>, rels)
       IN /\ include_folder' = folder
          /\ copied' = rels
          /\ pkg' = after
          /\ snaps' = IF hist # <<>> /\ Last(hist) = "source_ok"
                      THEN (IF Len(snaps) < 2 THEN snaps ELSE Tail(snaps))
                           \o << [cwd |-> cwd, pkg |-> after] >>
                      ELSE snaps
    /\ outcome' = "ok"
    /\ hist' = Push(hist, "package")
    /\ UNCHANGED <<remote, cwd, pc, zip_name, calls>>

Next == SourceBegin \/ DownloadStep \/ UnzipStep \/ UnlinkStep \/ Package

Spec == Init /\ [][Next]_vars

----------------------------------------------------------------------------
(* Names the properties are stated with, written out literally.            *)

ArchiveFile == <<"1",".","2",".","1",".","z","i","p">>

ArchiveUrl == url \o <<"/","a","r","c","h","i","v","e","/">> \o version \o <<".","z","i","p">>

SrcFolder == <<"t","r","a","n","s","w","a","r","p","-","1",".","2",".","1","/","s","r","c">>

IncludeLayoutFolder == <<"t","r","a","n","s","w","a","r","p","-","1",".","2",".","1","/","i","n","c","l","u","d","e">>

DestDir == <<"i","n","c","l","u","d","e","/">>

EndsWithDotH(f) == Len(f) >= 2 /\ f[Len(f) - 1] = "." /\ f[Len(f)] = "h"

\* The headers lying directly in the expected source subdirectory of a tree.
HeadersIn(tree) == {f \in FileNames : (SrcFolder \o <<"/">> \o f) \in tree /\ EndsWithDotH(f)}

SubdirExists(tree) == (SrcFolder \o <<"/">>) \in tree

TreeExtracted(tree) == \A i \in 1..Len(remote) : remote[i] \in tree

NothingExtracted(tree) == \A i \in 1..Len(remote) : remote[i] \notin tree

JustFinished(step) == pc = "idle" /\ hist # <<>> /\ Last(hist) = step

HistEndsWith(suffix) ==
    /\ Len(hist) >= Len(suffix)
    /\ SubSeq(hist, Len(hist) - Len(suffix) + 1, Len(hist)) = suffix

SourceStepTaken == pc # "idle" \/ pc' # "idle"

PackageStepTaken == pc = "idle" /\ pc' = "idle"

----------------------------------------------------------------------------
(* C1.  As stated: whenever a source step in which the download completed  *)
(* and unzip was attempted has ended, the archive file is absent from the  *)
(* working directory, whether unzip succeeded or failed.                   *)
C1_ArchiveDeletedRegardless ==
    (pc = "idle" /\ Len(calls) >= 2 /\ calls[1].ok) => ArchiveFile \notin cwd

(* C1, amended: when such a source step has ended, the archive file is     *)
(* absent if unzip succeeded and is still present if unzip failed.         *)
C1_ArchiveDeletedIffUnzipSucceeded ==
    (pc = "idle" /\ Len(calls) >= 2 /\ calls[1].ok)
        => (ArchiveFile \notin cwd <=> calls[2].ok)

C1_Witness ==
    /\ JustFinished("source_failed")
    /\ Len(calls) = 2 /\ calls[1].ok /\ ~calls[2].ok
    /\ ArchiveFile \in cwd

(* C2.  After a source step that succeeded, the archive file is not in the *)
(* working directory and every member of the archive is.                   *)
C2_SuccessLeavesTreeWithoutArchive ==
    JustFinished("source_ok") => (ArchiveFile \notin cwd /\ TreeExtracted(cwd))

C2_Witness ==
    /\ JustFinished("source_ok")
    /\ Len(remote) >= 3
    /\ Len(calls) = 3 /\ calls[3].ok

C5_StagesExactlyHeaders ==
    JustFinished("package") =>
        /\ copied = HeadersIn(cwd)
        /\ \A f \in copied : (DestDir \o f) \in pkg
        /\ \A p \in pkg : \E f \in FileNames : EndsWithDotH(f) /\ p = DestDir \o f

C5_Witness ==
    /\ JustFinished("package")
    /\ (SrcFolder \o <<"/","c",".","t","x","t">>) \in cwd
    /\ copied = { <<"a",".","h">>, <<"b",".","h">> }
    /\ pkg = { DestDir \o <<"a",".","h">>, DestDir \o <<"b",".","h">> }

(* C6.  Two whole fetches in a row (source, package, source, package, all  *)
(* succeeding) leave the package folder and the working directory as one   *)
(* fetch left them: same staged files, tree present, archive absent.       *)
C6_FetchTwiceSameAsOnce ==
    (pc = "idle" /\ HistEndsWith(<<"source_ok", "package", "source_ok", "package">>))
        => /\ Len(snaps) = 2
           /\ snaps[2] = snaps[1]
           /\ snaps[2] = [cwd |-> cwd, pkg |-> pkg]
           /\ ArchiveFile \notin cwd /\ TreeExtracted(cwd)

C6_Witness ==
    /\ pc = "idle"
    /\ HistEndsWith(<<"source_ok", "package", "source_ok", "package">>)
    /\ Cardinality(pkg) = 2

(* C7.  Every download is from url/archive/version.zip into version.zip,   *)
(* and unzip and unlink are given that same file name.                     *)
C7_UrlAndFileName ==
    \A i \in 1..Len(calls) :
        IF calls[i].op = "download"
        THEN calls[i].args = <<ArchiveUrl, ArchiveFile>>
        ELSE calls[i].args = <<ArchiveFile>>

C7_Witness ==
    /\ Len(calls) = 3
    /\ calls[1].op = "download" /\ calls[2].op = "unzip" /\ calls[3].op = "unlink"

(* C8.  The folder the package step reads is transwarp-1.2.1/src, not the  *)
(* include layout, and its first component is the top-level folder of      *)
(* everything extracted from the archive.                                  *)
C8_SourceSubdirectory ==
    include_folder # <<>> =>
        /\ include_folder = SrcFolder
        /\ include_folder # IncludeLayoutFolder
        /\ \A p \in cwd \ {ArchiveFile} :
              StartsWith(p, SubSeq(include_folder, 1, Len(include_folder) - 4) \o <<"/">>)

C8_Witness ==
    /\ JustFinished("package")
    /\ include_folder = SrcFolder
    /\ TreeExtracted(cwd)
    /\ copied # {}

(* C9.  The calls of one source step are a prefix of download, unzip,      *)
(* unlink; only the last may have failed, and a failure ends the step.     *)
(* A failed download extracts nothing; after a failed unzip no unlink is   *)
(* made and the archive file is still there.                               *)
C9_LinearNoRetry ==
    [][/\ Len(calls') <= 3
       /\ \A i \in 1..Len(calls') :
            /\ calls'[i].op = <<"download", "unzip", "unlink">>[i]
            /\ ~calls'[i].ok => (i = Len(calls') /\ pc' = "idle")
       /\ (Len(calls') = 1 /\ ~calls'[1].ok /\ pc = "download") => cwd' = cwd
       /\ (Len(calls') = 2 /\ ~calls'[2].ok) => ArchiveFile \in cwd'
      ]_vars

C9_Witness ==
    /\ JustFinished("source_failed")
    /\ Len(calls) = 1 /\ ~calls[1].ok
    /\ NothingExtracted(cwd)

(* C10.  A step of source() leaves the package folder alone; the package   *)
(* step leaves the working directory alone; and with nothing extracted     *)
(* the package step stages nothing.                                        *)
C10_DisjointEffects ==
    [][/\ SourceStepTaken => (pkg' = pkg /\ copied' = copied)
       /\ PackageStepTaken => cwd' = cwd
       /\ (PackageStepTaken /\ NothingExtracted(cwd)) => (pkg' = pkg /\ copied' = {})
      ]_vars

C10_Witness ==
    /\ pc = "idle"
    /\ HistEndsWith(<<"source_ok", "package", "package", "package">>)
    /\ pkg # {}
    /\ TreeExtracted(cwd)

====
